---- MODULE Spec2Model ----
(***************************************************************************)
(* Model of poem-openapi-derive's OneOf derive (src/poem-openapi-derive/   *)
(* src/oneof.rs): generate() walks the variants of an enum and emits the   *)
(* Type / ParseFromJSON / ToJSON impls of a discriminated union.  The      *)
(* model keeps the token lists generate() builds (types, from_json,        *)
(* to_json, names, mapping) and interprets the emitted impls over small    *)
(* JSON values.                                                            *)
(***************************************************************************)
EXTENDS Integers, Sequences, FiniteSets, TLC

\* ---------------------------------------------------------------- bounds
MaxVariants == 2      \* variants per enum
MaxPayload  == 2      \* payload values are 1..MaxPayload

\* ------------------------------------------------------------ JSON values
\* serde_json::Value, one record shape for all kinds; an object maps keys to
\* scalar values.
EmptyMap == <<>>
JNull    == [kind |-> "null", n |-> 0, s |-> "", o |-> EmptyMap]
JNum(n)  == [kind |-> "num",  n |-> n, s |-> "", o |-> EmptyMap]
JStr(s)  == [kind |-> "str",  n |-> 0, s |-> s,  o |-> EmptyMap]
JObj(o)  == [kind |-> "obj",  n |-> 0, s |-> "", o |-> o]

\* serde_json::Map::insert: insert or overwrite.
MapInsert(o, k, v) == [q \in DOMAIN o \cup {k} |-> IF q = k THEN v ELSE o[q]]

\* Option<T>
None    == [some |-> FALSE, val |-> JNull]
Some(v) == [some |-> TRUE,  val |-> v]

\* Value::as_object().and_then(|obj| obj.get(key))
ObjGet(value, key) ==
    IF value.kind = "obj" /\ key \in DOMAIN value.o
    THEN Some(value.o[key])
    ELSE None

\* impl PartialEq<str> for Value: only a JSON string equals a str.
ValueEqStr(value, str) == value.kind = "str" /\ value.s = str

\* ---------------------------------------------------------------- errors
NoErr == [kind |-> "", ty |-> ""]
\* ParseError::<T>::expected_type(value), T::name() = ty
ExpectedType(ty) == [kind |-> "ExpectedType", ty |-> ty]
\* ParseError::custom(..) raised by a payload type
Custom(ty) == [kind |-> "Custom", ty |-> ty]

\* ---------------------------------------------------------- payload types
\* The payload types a variant may wrap: two object types with one required
\* integer field each, and a primitive whose JSON is not an object and whose
\* schema is inline.
PayloadTypes == {"CircleData", "SquareData", "i32"}

PayloadField(ty) == IF ty = "CircleData" THEN "radius" ELSE "side"

\* <T as Type>::name()
TypeName(ty) ==
    CASE ty = "CircleData" -> "Circle"
      [] ty = "SquareData" -> "Square"
      [] OTHER             -> "integer"

\* <T as Type>::schema_ref()
Reference(name) == [kind |-> "Reference", name |-> name]
Inline(ty)      == [kind |-> "Inline", name |-> ty]
TypeSchemaRef(ty) ==
    IF ty = "i32" THEN Inline("integer") ELSE Reference(TypeName(ty))

\* <T as ToJSON>::to_json(obj)
TypeToJson(ty, obj) ==
    IF ty = "i32" THEN JNum(obj)
    ELSE JObj(MapInsert(EmptyMap, PayloadField(ty), JNum(obj)))

\* <T as ParseFromJSON>::parse_from_json(value): the object types read their
\* own field and ignore every other key.
POk(obj)  == [ok |-> TRUE,  val |-> obj, err |-> NoErr]
PErr(err) == [ok |-> FALSE, val |-> 0,   err |-> err]
TypeParseFromJson(ty, value) ==
    IF ty = "i32"
    THEN IF value.kind = "num" THEN POk(value.n) ELSE PErr(ExpectedType(TypeName(ty)))
    ELSE IF value.kind # "obj" THEN PErr(ExpectedType(TypeName(ty)))
         ELSE LET f == ObjGet(value, PayloadField(ty)) IN
              IF f.some /\ f.val.kind = "num" THEN POk(f.val.n)
              ELSE PErr(Custom(TypeName(ty)))

\* Registry: named schemas in insertion order; creating a schema under a name
\* that is already present leaves the registry as it is.
CreateSchema(registry, name) ==
    IF \E i \in 1..Len(registry) : registry[i] = name
    THEN registry
    ELSE Append(registry, name)

\* <T as Type>::register(registry)
TypeRegister(ty, registry) ==
    IF ty = "i32" THEN registry ELSE CreateSchema(registry, TypeName(ty))

\* ------------------------------------------------- the derive input
\* Variant idents are distinct within an enum: the i-th variant is named Ident(i).
Ident(i) == CASE i = 1 -> "V1" [] i = 2 -> "V2" [] i = 3 -> "V3" [] OTHER -> "V4"

\* #[oai(mapping = "...")] values; "Circle" equals CircleData's name().
NoMapping   == [some |-> FALSE, val |-> ""]
Mappings    == {NoMapping, [some |-> TRUE, val |-> "sq"], [some |-> TRUE, val |-> "Circle"]}

\* Field lists of a variant: unit, one payload, two payloads.
FieldLists ==
    {<<>>} \cup {<<ty>> : ty \in PayloadTypes} \cup {<<"CircleData", "SquareData">>}

\* struct OneOfItem, without its ident
OneOfItemBody == [fields : FieldLists, mapping : Mappings]

OneOfItem(i, body) ==
    [ident |-> Ident(i), fields |-> body.fields, mapping |-> body.mapping]

\* #[oai(property_name = "...")]; "side" is also SquareData's own field.
PropertyNames == {"type", "side"}

\* struct OneOfArgs: data is Data::Enum(variants) or Data::Struct.
OneOfArgs ==
    UNION { { [ident |-> "Shape", data |-> "Enum", property_name |-> p,
               variants |-> [i \in 1..n |-> OneOfItem(i, bodies[i])]] :
                 bodies \in [1..n -> OneOfItemBody], p \in PropertyNames }
          : n \in 0..MaxVariants }
    \cup { [ident |-> "Shape", data |-> "Struct", property_name |-> p,
            variants |-> <<>>] : p \in PropertyNames }


\* ------------------------------------------------------- generate()
\* Token streams standing for a tag: a string literal, or a call of the
\* payload type's name() that the emitted code evaluates when it runs.
Lit(s)       == [kind |-> "lit",  s |-> s,  ty |-> ""]
NameCall(ty) == [kind |-> "name", s |-> "", ty |-> ty]
Eval(tok)    == IF tok.kind = "lit" THEN tok.s ELSE TypeName(tok.ty)

mapping_name(variant) ==
    IF variant.mapping.some
    THEN Lit(variant.mapping.val)
    ELSE NameCall(variant.fields[1])

from_json_arm(variant) ==
    [tag |-> mapping_name(variant), ty |-> variant.fields[1], ident |-> variant.ident]

\* to_json_arm with the tag always taken from name(), ignoring `mapping`.
to_json_arm_name_only(variant, property_name) ==
    [ident |-> variant.ident, ty |-> variant.fields[1],
     key |-> property_name, tag |-> NameCall(variant.fields[1])]

to_json_arm(variant, property_name) ==
    [ident |-> variant.ident, ty |-> variant.fields[1],
     key |-> property_name, tag |-> mapping_name(variant)]

\* names_item with the tag always taken from name(), ignoring `mapping`.
names_item_name_only(variant) == NameCall(variant.fields[1])

names_item(variant) == mapping_name(variant)

mapping_item(variant) == [tag |-> mapping_name(variant), ty |-> variant.fields[1]]

\* mapping_push without the is_some() test.
mapping_push_always(mapping, variant) == Append(mapping, mapping_item(variant))

\* if variant.mapping.is_some() { mapping.push(..) }
mapping_push(mapping, variant) ==
    IF variant.mapping.some THEN Append(mapping, mapping_item(variant)) ELSE mapping

NoExpanded ==
    [property_name |-> "", types |-> <<>>, from_json |-> <<>>, to_json |-> <<>>,
     names |-> <<>>, mapping |-> <<>>]
GenOk(expanded) == [ok |-> TRUE,  expanded |-> expanded,   span |-> "", msg |-> ""]
GenErr(span, msg) == [ok |-> FALSE, expanded |-> NoExpanded, span |-> span, msg |-> msg]

\* `for variant in e { match variant.fields.len() { 1 => .., _ => return Err } }`
RECURSIVE variant_loop(_, _, _)
variant_loop(args, i, acc) ==
    IF i > Len(args.variants) THEN GenOk(acc)
    ELSE LET variant == args.variants[i] IN
         IF Len(variant.fields) = 1
         THEN variant_loop(args, i + 1,
                [property_name |-> acc.property_name,
                 types     |-> Append(acc.types, variant.fields[1]),
                 from_json |-> Append(acc.from_json, from_json_arm(variant)),
                 to_json   |-> Append(acc.to_json, to_json_arm(variant, args.property_name)),
                 names     |-> Append(acc.names, names_item(variant)),
                 mapping   |-> mapping_push(acc.mapping, variant)])
         ELSE GenErr(variant.ident, "Incorrect oneof definition.")

\* generate that skips a variant of the wrong shape instead of failing.
HasOneField(variant) == Len(variant.fields) = 1
generate_skip_malformed(args) ==
    IF args.data # "Enum"
    THEN GenErr(args.ident, "OneOf can only be applied to an enum.")
    ELSE variant_loop([args EXCEPT !.variants = SelectSeq(args.variants, HasOneField)], 1,
                      [NoExpanded EXCEPT !.property_name = args.property_name])

generate(args) ==
    IF args.data # "Enum"
    THEN GenErr(args.ident, "OneOf can only be applied to an enum.")
    ELSE variant_loop(args, 1, [NoExpanded EXCEPT !.property_name = args.property_name])

\* ------------------------------------------------ the emitted impls
\* A value of the union: Self::ident(obj).
NoSelf == [ident |-> "", obj |-> 0]
Ok(self) == [ok |-> TRUE,  val |-> self,   err |-> NoErr]
Err(err) == [ok |-> FALSE, val |-> NoSelf, err |-> err]

\* The guard of a from_json arm: Some(property_name) if property_name == tag
arm_matches(arm, scrutinee) ==
    scrutinee.some /\ ValueEqStr(scrutinee.val, Eval(arm.tag))

\* select_arm that takes the last matching arm.
select_arm_last(from_json, scrutinee) ==
    LET matching == {i \in 1..Len(from_json) : arm_matches(from_json[i], scrutinee)} IN
    IF matching = {} THEN 0
    ELSE CHOOSE i \in matching : \A j \in matching : i >= j

\* select_arm that falls back to the first arm when no guard holds.
select_arm_default_first(from_json, scrutinee) ==
    LET matching == {i \in 1..Len(from_json) : arm_matches(from_json[i], scrutinee)} IN
    IF matching = {} THEN (IF Len(from_json) > 0 THEN 1 ELSE 0)
    ELSE CHOOSE i \in matching : \A j \in matching : i <= j

\* `match` tries the arms top to bottom: index of the arm taken, 0 for `_`.
select_arm(from_json, scrutinee) ==
    LET matching == {i \in 1..Len(from_json) : arm_matches(from_json[i], scrutinee)} IN
    IF matching = {} THEN 0
    ELSE CHOOSE i \in matching : \A j \in matching : i <= j

\* The body of an arm: parse_from_json(value).map(Self::ident).map_err(propagate)
\* arm = 0 is `_ => Err(ParseError::expected_type(value))`, Self::name() = "object".
run_arm(from_json, arm, value) ==
    IF arm = 0
    THEN [result |-> Err(ExpectedType("object")), calls |-> <<>>]
    ELSE LET r == TypeParseFromJson(from_json[arm].ty, value) IN
         [result |-> IF r.ok THEN Ok([ident |-> from_json[arm].ident, obj |-> r.val])
                     ELSE Err(r.err),
          calls  |-> << [ty |-> from_json[arm].ty, value |-> value] >>]

\* parse_from_json that moves on to the next matching arm when a payload
\* decoder fails.
RECURSIVE retry_from(_, _, _, _)
retry_from(expanded, value, i, calls) ==
    IF i > Len(expanded.from_json)
    THEN [result |-> Err(ExpectedType("object")), calls |-> calls]
    ELSE IF arm_matches(expanded.from_json[i], ObjGet(value, expanded.property_name))
         THEN LET r == run_arm(expanded.from_json, i, value) IN
              IF r.result.ok THEN [result |-> r.result, calls |-> calls \o r.calls]
              ELSE retry_from(expanded, value, i + 1, calls \o r.calls)
         ELSE retry_from(expanded, value, i + 1, calls)
parse_from_json_retry(expanded, value) == retry_from(expanded, value, 1, <<>>)

\* impl ParseFromJSON: the result and the payload decoders called.
parse_from_json(expanded, value) ==
    run_arm(expanded.from_json,
            select_arm(expanded.from_json, ObjGet(value, expanded.property_name)),
            value)

\* run_to_json_arm that keeps a discriminator key the payload already wrote.
run_to_json_arm_keep_existing(arm, obj) ==
    LET value == TypeToJson(arm.ty, obj) IN
    IF value.kind = "obj" /\ arm.key \notin DOMAIN value.o
    THEN JObj(MapInsert(value.o, arm.key, JStr(Eval(arm.tag))))
    ELSE value

\* The body of a to_json arm.
run_to_json_arm(arm, obj) ==
    LET value == TypeToJson(arm.ty, obj) IN
    IF value.kind = "obj"
    THEN JObj(MapInsert(value.o, arm.key, JStr(Eval(arm.tag))))
    ELSE value

\* impl ToJSON: match self { Self::ident(obj) => .. }
to_json(expanded, self) ==
    LET i == CHOOSE i \in 1..Len(expanded.to_json) : expanded.to_json[i].ident = self.ident IN
    run_to_json_arm(expanded.to_json[i], self.obj)

\* MetaSchemaRef::unwrap_reference panics on an inline schema.
is_reference(ref) == ref.kind = "Reference"
unwrap_reference(ref) == ref.name

NoSchema ==
    [panic |-> FALSE, ty |-> "", one_of |-> <<>>, property |-> "",
     enum_items |-> <<>>, discriminator_property_name |-> "", mapping |-> <<>>]

schema_one_of(types) == [i \in 1..Len(types) |-> TypeSchemaRef(types[i])]

\* schema_enum_items that drops a tag already listed.
RECURSIVE dedup_tags(_, _, _)
dedup_tags(names, i, acc) ==
    IF i > Len(names) THEN acc
    ELSE dedup_tags(names, i + 1,
            IF \E j \in 1..Len(acc) : acc[j] = Eval(names[i]) THEN acc
            ELSE Append(acc, Eval(names[i])))
schema_enum_items_dedup(names) == dedup_tags(names, 1, <<>>)

schema_enum_items(names) == [i \in 1..Len(names) |-> Eval(names[i])]

schema_mapping(mapping) ==
    [i \in 1..Len(mapping) |->
        << Eval(mapping[i].tag),
           "#/components/schemas/" \o unwrap_reference(TypeSchemaRef(mapping[i].ty)) >>]

\* fn schema_ref(): the inline MetaSchema, or a panic out of unwrap_reference.
schema_ref(expanded) ==
    IF \E i \in 1..Len(expanded.mapping) : ~is_reference(TypeSchemaRef(expanded.mapping[i].ty))
    THEN [NoSchema EXCEPT !.panic = TRUE]
    ELSE [panic |-> FALSE, ty |-> "object",
          one_of |-> schema_one_of(expanded.types),
          property |-> expanded.property_name,
          enum_items |-> schema_enum_items(expanded.names),
          discriminator_property_name |-> expanded.property_name,
          mapping |-> schema_mapping(expanded.mapping)]

\* fn register(registry): #(<#types as Type>::register(registry);)*
RECURSIVE register_from(_, _, _)
register_from(types, i, acc) ==
    IF i > Len(types) THEN acc
    ELSE register_from(types, i + 1,
            [registry |-> TypeRegister(types[i], acc.registry),
             calls    |-> Append(acc.calls, types[i])])

\* register that stops after the first payload type.
register_first_only(expanded, registry) ==
    register_from(IF expanded.types = <<>> THEN <<>> ELSE <<expanded.types[1]>>, 1,
                  [registry |-> registry, calls |-> <<>>])

register(expanded, registry) ==
    register_from(expanded.types, 1, [registry |-> registry, calls |-> <<>>])

\* ------------------------------------------------------ state machine
VARIABLES
    args,       \* the derive input handed to generate()
    pc,         \* "input" before generate(), then "expanded" or "error"
    output,     \* what generate() returned
    registry,   \* the Registry the union registers into
    last        \* the last call of an emitted method and what it returned

vars == <<args, pc, output, registry, last>>

NoCall ==
    [op |-> "none", self |-> NoSelf, value |-> JNull, result |-> Err(NoErr),
     calls |-> <<>>, schema |-> NoSchema, before |-> <<>>]

PayloadValues == 1..MaxPayload

\* Values of the union type: one constructor per variant.
SelfValues(expanded) ==
    { [ident |-> expanded.to_json[i].ident, obj |-> obj] :
        i \in 1..Len(expanded.to_json), obj \in PayloadValues }

\* JSON documents handed to parse_from_json: non-objects, payload objects
\* without the discriminator, and the same objects with the discriminator
\* set to a declared tag, an undeclared string or a number.
DiscriminatorValues ==
    {JStr(t) : t \in {"Circle", "Square", "sq", "triangle"}} \cup {JNum(1)}
BaseObjects ==
    {EmptyMap} \cup {TypeToJson(ty, 1).o : ty \in {"CircleData", "SquareData"}}
JsonInputs(property_name) ==
    {JNull, JStr("Circle"), JNum(1)}
    \cup {JObj(o) : o \in BaseObjects}
    \cup {JObj(MapInsert(o, property_name, d)) : o \in BaseObjects, d \in DiscriminatorValues}

Init ==
    /\ args \in OneOfArgs
    /\ pc = "input"
    /\ output = GenErr("", "")
    /\ registry = <<>>
    /\ last = NoCall

\* derive_oneof: oneof::generate(args)
Generate ==
    /\ pc = "input"
    /\ output' = generate(args)
    /\ pc' = IF output'.ok THEN "expanded" ELSE "error"
    /\ UNCHANGED <<args, registry, last>>

\* <Shape as ToJSON>::to_json(&self)
ToJSON ==
    /\ pc = "expanded"
    /\ \E self \in SelfValues(output.expanded) :
         last' = [NoCall EXCEPT !.op = "to_json", !.self = self,
                                !.value = to_json(output.expanded, self)]
    /\ UNCHANGED <<args, pc, output, registry>>

\* <Shape as ParseFromJSON>::parse_from_json(value) on a document of the caller
ParseFromJSON ==
    /\ pc = "expanded"
    /\ \E value \in JsonInputs(output.expanded.property_name) :
         LET r == parse_from_json(output.expanded, value) IN
         last' = [NoCall EXCEPT !.op = "parse_from_json", !.value = value,
                                !.result = r.result, !.calls = r.calls]
    /\ UNCHANGED <<args, pc, output, registry>>

\* parse_from_json on the document to_json has just produced
ParseEncoded ==
    /\ pc = "expanded"
    /\ last.op = "to_json"
    /\ LET r == parse_from_json(output.expanded, last.value) IN
       last' = [NoCall EXCEPT !.op = "round_trip", !.self = last.self,
                              !.value = last.value,
                              !.result = r.result, !.calls = r.calls]
    /\ UNCHANGED <<args, pc, output, registry>>

\* <Shape as Type>::schema_ref()
SchemaRef ==
    /\ pc = "expanded"
    /\ last' = [NoCall EXCEPT !.op = "schema_ref", !.schema = schema_ref(output.expanded)]
    /\ UNCHANGED <<args, pc, output, registry>>

\* <Shape as Type>::register(registry); `before` keeps the registry the call
\* started from.
Register ==
    /\ pc = "expanded"
    /\ LET r == register(output.expanded, registry) IN
         /\ registry' = r.registry
         /\ last' = [NoCall EXCEPT !.op = "register", !.calls = r.calls,
                                    !.before = registry]
    /\ UNCHANGED <<args, pc, output>>

Next ==
    \/ Generate
    \/ ToJSON
    \/ ParseFromJSON
    \/ ParseEncoded
    \/ SchemaRef
    \/ Register

Spec == Init /\ [][Next]_vars

\* ------------------------------------------------------------ properties
\* What the declaration says, read off args and not off generate()'s lists.
NCases == Len(args.variants)
WellShaped(i) == Len(args.variants[i].fields) = 1
Malformed == {i \in 1..NCases : ~WellShaped(i)}
PayloadType(i) == args.variants[i].fields[1]
HasExplicitTag(i) == args.variants[i].mapping.some
ResolvedTag(i) ==
    IF HasExplicitTag(i) THEN args.variants[i].mapping.val ELSE TypeName(PayloadType(i))
CaseOf(self) == CHOOSE i \in 1..NCases : args.variants[i].ident = self.ident
Decoded == last.op \in {"parse_from_json", "round_trip"}
Discriminator == ObjGet(last.value, args.property_name)
TagsEqualTo(value) == {i \in 1..NCases : value.kind = "str" /\ value.s = ResolvedTag(i)}
FirstOf(S) == CHOOSE i \in S : \A j \in S : i <= j

\* C1 (as claimed): for every case C and payload value v whose payload type
\* round-trips on its own, decoding what to_json produced for C(v) returns C(v).
C1_RoundTripAnyDeclaration ==
    (last.op = "round_trip"
       /\ LET ty == PayloadType(CaseOf(last.self)) IN
          TypeParseFromJson(ty, TypeToJson(ty, last.self.obj)) = POk(last.self.obj))
    => last.result = Ok(last.self)

\* C1 (amended): when no case declared before C has C's tag, the payload
\* encoder returns an object, and the payload decoder returns v from that
\* object with the discriminator property set to C's tag, decoding what
\* to_json produced for C(v) returns C(v).
C1_RoundTripFirstTagObject ==
    (last.op = "round_trip"
       /\ LET c  == CaseOf(last.self)
              ty == PayloadType(c)
              js == TypeToJson(ty, last.self.obj)
          IN /\ \A j \in 1..(c - 1) : ResolvedTag(j) # ResolvedTag(c)
             /\ js.kind = "obj"
             /\ TypeParseFromJson(ty,
                    JObj(MapInsert(js.o, args.property_name, JStr(ResolvedTag(c)))))
                  = POk(last.self.obj))
    => last.result = Ok(last.self)

C1_Witness ==
    /\ last.op = "round_trip"
    /\ NCases = 2
    /\ CaseOf(last.self) = 2
    /\ HasExplicitTag(2)
    /\ ResolvedTag(1) # ResolvedTag(2)
    /\ last.result = Ok(last.self)

\* C2 (as claimed): for every case and payload value, the JSON returned by
\* to_json holds the discriminator property with the case's tag as a string.
C2_DiscriminatorAlwaysPresent ==
    last.op = "to_json"
    => ObjGet(last.value, args.property_name) = Some(JStr(ResolvedTag(CaseOf(last.self))))

\* C2 (amended): whenever the payload encoder returns a JSON object, the JSON
\* returned by to_json holds the discriminator property with the case's tag
\* as a string, over whatever the payload encoder had put under that key.
C2_DiscriminatorPresentInObject ==
    (last.op = "to_json"
       /\ TypeToJson(PayloadType(CaseOf(last.self)), last.self.obj).kind = "obj")
    => /\ last.value.kind = "obj"
       /\ ObjGet(last.value, args.property_name) = Some(JStr(ResolvedTag(CaseOf(last.self))))

C2_Witness ==
    /\ last.op = "to_json"
    /\ LET js == TypeToJson(PayloadType(CaseOf(last.self)), last.self.obj) IN
       /\ js.kind = "obj"
       /\ args.property_name \in DOMAIN js.o
       /\ js.o[args.property_name] # JStr(ResolvedTag(CaseOf(last.self)))
    /\ ObjGet(last.value, args.property_name) = Some(JStr(ResolvedTag(CaseOf(last.self))))

\* C3: for every case i, the tag the to_json arm writes, the tag the
\* from_json arm compares against and the i-th enum item of the schema are
\* the same string: the explicit tag if declared, the payload's name() if not.
C3_TagsAgree ==
    pc = "expanded"
    => /\ Len(output.expanded.to_json) = NCases
       /\ Len(output.expanded.from_json) = NCases
       /\ Len(output.expanded.names) = NCases
       /\ \A i \in 1..NCases :
            /\ output.expanded.to_json[i].ident = args.variants[i].ident
            /\ output.expanded.from_json[i].ident = args.variants[i].ident
            /\ Eval(output.expanded.to_json[i].tag) = ResolvedTag(i)
            /\ Eval(output.expanded.from_json[i].tag) = ResolvedTag(i)
            /\ Eval(output.expanded.names[i]) = ResolvedTag(i)
            /\ (last.op = "schema_ref" /\ ~last.schema.panic)
                 => last.schema.enum_items[i] = ResolvedTag(i)

C3_Witness ==
    /\ pc = "expanded"
    /\ last.op = "schema_ref"
    /\ ~last.schema.panic
    /\ NCases = 2
    /\ HasExplicitTag(1)
    /\ ~HasExplicitTag(2)
    /\ ResolvedTag(1) # TypeName(PayloadType(1))
    /\ last.schema.enum_items = <<ResolvedTag(1), TypeName(PayloadType(2))>>

\* C4: parse_from_json fails with the union's ExpectedType error and calls no
\* payload decoder when the input is not an object, has no discriminator
\* property, or its discriminator equals no resolved tag.
C4_NoMatchIsExpectedType ==
    (Decoded
       /\ \/ last.value.kind # "obj"
          \/ ~Discriminator.some
          \/ TagsEqualTo(Discriminator.val) = {})
    => /\ last.result = Err(ExpectedType("object"))
       /\ last.calls = <<>>

C4_Witness ==
    /\ Decoded
    /\ NCases = 2
    /\ Discriminator.some
    /\ Discriminator.val.kind = "num"
    /\ last.result = Err(ExpectedType("object"))
    /\ last.calls = <<>>

\* C5: when the discriminator equals the tag of one or more cases,
\* parse_from_json runs the payload decoder of the first such case in
\* declaration order and wraps its result in that case's constructor.
C5_FirstMatchWins ==
    (Decoded /\ Discriminator.some /\ TagsEqualTo(Discriminator.val) # {})
    => LET c == FirstOf(TagsEqualTo(Discriminator.val))
           r == TypeParseFromJson(PayloadType(c), last.value)
       IN /\ Len(last.calls) = 1
          /\ last.calls[1].ty = PayloadType(c)
          /\ r.ok => last.result = Ok([ident |-> args.variants[c].ident, obj |-> r.val])
          /\ last.result.ok => last.result.val.ident = args.variants[c].ident

C5_Witness ==
    /\ Decoded
    /\ Discriminator.some
    /\ TagsEqualTo(Discriminator.val) = {1, 2}
    /\ PayloadType(1) = PayloadType(2)
    /\ last.result.ok
    /\ last.result.val.ident = args.variants[1].ident

ExplicitCases == {i \in 1..NCases : HasExplicitTag(i)}
\* The k-th explicit-tag case in declaration order.
NthExplicit(k) ==
    CHOOSE i \in ExplicitCases : Cardinality({j \in ExplicitCases : j <= i}) = k

\* C6: in a schema that was built, discriminator.mapping has one entry per
\* explicit-tag case, in declaration order, none for an implicit-tag case,
\* each pairing the explicit tag with "#/components/schemas/" + the payload's
\* reference name.
C6_MappingIsExplicitCases ==
    (last.op = "schema_ref" /\ ~last.schema.panic)
    => /\ Len(last.schema.mapping) = Cardinality(ExplicitCases)
       /\ \A k \in 1..Cardinality(ExplicitCases) :
            LET i == NthExplicit(k) IN
            /\ TypeSchemaRef(PayloadType(i)).kind = "Reference"
            /\ last.schema.mapping[k] =
                 << args.variants[i].mapping.val,
                    "#/components/schemas/" \o TypeSchemaRef(PayloadType(i)).name >>

C6_Witness ==
    /\ last.op = "schema_ref"
    /\ ~last.schema.panic
    /\ NCases = 2
    /\ ExplicitCases = {2}
    /\ last.schema.mapping = << <<"sq", "#/components/schemas/Square">> >>

\* C7: in a schema that was built, oneOf and the discriminator enum have one
\* entry per case in declaration order: the i-th oneOf entry is the i-th
\* payload's schema_ref(), the i-th enum item the i-th resolved tag, with
\* duplicate tags kept.
C7_OneOfAndEnumFollowDeclaration ==
    (last.op = "schema_ref" /\ ~last.schema.panic)
    => /\ Len(last.schema.one_of) = NCases
       /\ Len(last.schema.enum_items) = NCases
       /\ \A i \in 1..NCases :
            /\ last.schema.one_of[i] = TypeSchemaRef(PayloadType(i))
            /\ last.schema.enum_items[i] = ResolvedTag(i)

C7_Witness ==
    /\ last.op = "schema_ref"
    /\ ~last.schema.panic
    /\ NCases = 2
    /\ PayloadType(1) # PayloadType(2)
    /\ ResolvedTag(1) = ResolvedTag(2)
    /\ last.schema.enum_items = <<ResolvedTag(1), ResolvedTag(1)>>
    /\ last.schema.one_of = <<TypeSchemaRef(PayloadType(1)), TypeSchemaRef(PayloadType(2))>>

NamedSchemas ==
    {TypeSchemaRef(PayloadType(i)).name :
        i \in {j \in 1..NCases : TypeSchemaRef(PayloadType(j)).kind = "Reference"}}

\* C8: register on the union calls register of every case's payload type, once
\* per case in declaration order; after one or more calls the registry holds
\* exactly one entry per named schema of the payload types, as after one call.
C8_RegisterEveryPayloadOnce ==
    /\ last.op = "register"
         => /\ Len(last.calls) = NCases
            /\ \A i \in 1..NCases : last.calls[i] = PayloadType(i)
    /\ (last.op = "register" \/ registry # <<>>)
         => /\ {registry[k] : k \in 1..Len(registry)} = NamedSchemas
            /\ Len(registry) = Cardinality(NamedSchemas)
            /\ registry = register(output.expanded, <<>>).registry

C8_Witness ==
    /\ last.op = "register"
    /\ last.before = registry
    /\ NCases = 2
    /\ PayloadType(1) = PayloadType(2)
    /\ last.calls = <<PayloadType(1), PayloadType(1)>>
    /\ registry = <<TypeName(PayloadType(1))>>

\* C9: generate on an enum with a case of zero or several payloads fails with
\* an error on the first such case and emits nothing; on an enum whose cases
\* all wrap exactly one payload it succeeds.
C9_MalformedCaseRejected ==
    (pc # "input" /\ args.data = "Enum")
    => IF Malformed # {}
       THEN /\ pc = "error"
            /\ ~output.ok
            /\ output.span = args.variants[FirstOf(Malformed)].ident
            /\ output.expanded = NoExpanded
            /\ last = NoCall
       ELSE /\ pc = "expanded"
            /\ output.ok

C9_Witness ==
    /\ pc = "error"
    /\ args.data = "Enum"
    /\ NCases = 2
    /\ WellShaped(1)
    /\ Len(args.variants[2].fields) = 2
    /\ output.span = args.variants[2].ident

\* C10: the payload decoder of the selected case receives the whole input
\* object, discriminator included; when it fails, parse_from_json returns
\* that failure and calls no other payload decoder.
C10_WholeValueAndFailurePropagates ==
    (Decoded /\ Discriminator.some /\ TagsEqualTo(Discriminator.val) # {})
    => LET c == FirstOf(TagsEqualTo(Discriminator.val))
           r == TypeParseFromJson(PayloadType(c), last.value)
       IN /\ last.calls = << [ty |-> PayloadType(c), value |-> last.value] >>
          /\ args.property_name \in DOMAIN last.calls[1].value.o
          /\ ~r.ok => (~last.result.ok /\ last.result.err = r.err)

C10_Witness ==
    /\ Decoded
    /\ Discriminator.some
    /\ TagsEqualTo(Discriminator.val) = {1, 2}
    /\ ~TypeParseFromJson(PayloadType(1), last.value).ok
    /\ TypeParseFromJson(PayloadType(2), last.value).ok
    /\ ~last.result.ok
    /\ last.result.err = TypeParseFromJson(PayloadType(1), last.value).err
    /\ Len(last.calls) = 1

====
